---- MODULE Spec2Model ----
(***************************************************************************)
(* Behavioural demonstrations of sobert-moe: the Invoker with its command  *)
(* history (command.ts), the Document and Context state machines           *)
(* (state.ts), the ConcreteSubject with its observers (the observer        *)
(* section of flyweight.ts) and the ConcreteMediator and the ChatRoom (the *)
(* mediator file).  Each subsystem has its own specification;              *)
(* the variables of the other subsystems stay at their initial values.     *)
(*                                                                         *)
(* A call of a method the client supplies either completes or throws, and *)
(* which of the two is an input of the action: the methods of the Receiver *)
(* handed to a ComplexCommand, setDocument / setContext of a state object  *)
(* handed to changeState / transitionTo, and Observer.update.  The classes *)
(* of the repository themselves only log.  The code has no try/catch       *)
(* anywhere, so an exception leaves the handler at the throwing call.      *)
(***************************************************************************)
EXTENDS Integers, Sequences, FiniteSets, TLC

VARIABLES
  onStart,    \* Invoker.onStart: a command or NoCommand
  onFinish,   \* Invoker.onFinish: a command or NoCommand
  history,    \* Invoker.history: Command[]
  live,       \* history variable: commands whose execute() completed and
              \* whose undo() was not yet called, in order of application
  invCall,    \* history variable: what the last call of the Invoker did
  mark,       \* history variable: the history before the current run of
              \* applied commands, the number of commands applied in that
              \* run and the number of undo() calls that followed it
  docState,   \* Document.state (the class of the state object)
  docCall,    \* history variable: the last request made of the Document
  ctxState,   \* Context.state (the class of the state object)
  ctxCall,    \* history variable: the last request made of the Context
  observers,  \* ConcreteSubject.observers: Observer[]
  subjState,  \* ConcreteSubject.state
  subjCall,   \* history variable: the last call of the ConcreteSubject
  chatUsers,  \* ChatRoom.users: Map<string, User>, the values in the order
              \* of insertion, each with its key as name
  chatCall,   \* history variable: the last call of the ChatRoom
  medCall,    \* history variable: the last call of the ConcreteMediator
  stepOnStart,  \* Invoker.onStart, in the statement-level view of the Invoker
  stepOnFinish, \* Invoker.onFinish, in the statement-level view
  stepHistory,  \* Invoker.history, in the statement-level view
  running,       \* for each caller, the call of the Invoker it has in
                \* progress: the method, the line it is at, the command in
                \* hand
  nextHandler,  \* LoggerHandler.nextHandler of each logger: a logger or
                \* "undefined"
  logCall,       \* history variable: the last handle call of a logger
                \* since the chain was last changed
  instance,     \* DatabaseConnection.instance: a connection or NoInstance
  constructed,  \* history variable: the runs of the constructor so far
  getCalls,     \* history variable: the getInstance calls so far
  connCall,      \* history variable: the last call of DatabaseConnection
  cachedResult, \* ExpensiveOperationProxy.cachedResult of each cache proxy
  requests,     \* history variable: the request() calls made of each subject
  handled,      \* history variable: the runs of RealSubject.request, by
                \* the subject the client called
  proxyCall,     \* history variable: the last request() call
  children,     \* Composite.children: Component[]
  parent,       \* Component.parent of each component: the composite or
                \* "null"
  compCall,      \* history variable: the last add or remove call
  volume,       \* Tv.volume and Radio.volume: a number or NaN
  remoteCall,    \* history variable: the last call of a remote control or
                \* of a device
  treeChildren, \* TreeNode.children of each node: TreeNode[]
  iterMade,     \* whether the DepthFirstIterator of the tree was constructed
  stack,        \* DepthFirstIterator.stack: TreeNode[]
  currentNode,  \* DepthFirstIterator.currentNode: a node or NoNode (null)
  visited,      \* history variable: the nodes next() returned since the
                \* iterator was constructed or rewound, in order
  iterCall      \* history variable: the last call of the iterator

invokerVars == <<onStart, onFinish, history, live, invCall, mark>>
stateVars == <<docState, docCall, ctxState, ctxCall>>
subjectVars == <<observers, subjState, subjCall>>
mediatorVars == <<chatUsers, chatCall, medCall>>
serialVars == <<stepOnStart, stepOnFinish, stepHistory, running>>
chainVars == <<nextHandler, logCall>>
singletonVars == <<instance, constructed, getCalls, connCall>>
proxyVars == <<cachedResult, requests, handled, proxyCall>>
compositeVars == <<children, parent, compCall>>
bridgeVars == <<volume, remoteCall>>
iteratorVars == <<treeChildren, iterMade, stack, currentNode, visited, iterCall>>
vars == <<onStart, onFinish, history, live, invCall, mark, docState, docCall,
          ctxState, ctxCall, observers, subjState, subjCall, chatUsers,
          chatCall, medCall,
          stepOnStart, stepOnFinish, stepHistory, running,
          nextHandler, logCall,
          instance, constructed, getCalls, connCall,
          cachedResult, requests, handled, proxyCall,
          children, parent, compCall,
          volume, remoteCall,
          treeChildren, iterMade, stack, currentNode, visited, iterCall>>

\* ---------------------------------------------------------------- bounds
MaxHistory == 3

\* bound of the model: the notify frames a nested chain may reach
MaxNesting == 9

\* bound of the model: the getInstance calls of a behaviour, and the
\* request() calls made of one subject
MaxCalls == 4

\* bound of the model: the children of the Composite
MaxChildren == 3

\* bound of the model: the nodes of the tree
MaxNodes == 4

\* ------------------------------------------------------------- sequences
RECURSIVE RemoveLast(_, _)
\* s without the last occurrence of x (s itself when x does not occur)
RemoveLast(s, x) ==
  IF s = <<>> THEN <<>>
  ELSE IF s[Len(s)] = x THEN SubSeq(s, 1, Len(s) - 1)
  ELSE Append(RemoveLast(SubSeq(s, 1, Len(s) - 1), x), s[Len(s)])

Front(s) == SubSeq(s, 1, Len(s) - 1)
Last(s) == s[Len(s)]

\* =================================================================
\* command.ts
\* =================================================================
NoCommand == [kind |-> "undefined", a |-> "", b |-> ""]

SimpleCommand(payload) == [kind |-> "SimpleCommand", a |-> payload, b |-> ""]

ComplexCommand(a, b) == [kind |-> "ComplexCommand", a |-> a, b |-> b]

\* the commands the client hands to the Invoker
Commands ==
  { SimpleCommand("Say Hi!"), SimpleCommand("Say Bye!"),
    ComplexCommand("Send email", "Save report") }

\* The calls execute() makes, in order.
ExecuteCalls(c) ==
  IF c.kind = "SimpleCommand"
    THEN << <<"SimpleCommand.execute", c.a>> >>
    ELSE << <<"Receiver.doSomething", c.a>>,
            <<"Receiver.doSomethingElse", c.b>> >>

\* The calls undo() makes, in order.
UndoCalls(c) ==
  IF c.kind = "SimpleCommand"
    THEN << <<"SimpleCommand.undo", c.a>> >>
    ELSE << <<"Receiver.undoSomething", c.a>>,
            <<"Receiver.undoSomethingElse", c.b>> >>

\* A run of execute() or undo(): n of its calls took effect; the run threw
\* at call n+1 when n is less than the number of calls.
Run(calls, n) ==
  [effects |-> SubSeq(calls, 1, n), ok |-> n = Len(calls)]

\* mutant of Apply: the command is pushed before it is executed
ApplyPushFirst(h, c, n) ==
  LET r == Run(ExecuteCalls(c), n)
  IN [history |-> Append(h, c), effects |-> r.effects, ok |-> r.ok]

\* One 'if (command) { command.execute(); this.history.push(command); }'
\* block of doSomethingImportant, for a defined command c.
Apply(h, c, n) ==
  LET r == Run(ExecuteCalls(c), n)
  IN [history |-> IF r.ok THEN Append(h, c) ELSE h,
      effects |-> r.effects, ok |-> r.ok]

\* mutant of PopCommand: the oldest command is taken (shift)
ShiftCommand(h) ==
  IF h = <<>> THEN [command |-> NoCommand, rest |-> <<>>]
  ELSE [command |-> Head(h), rest |-> Tail(h)]

\* mutant of PopCommand: the last command is read and left in the array
PeekCommand(h) ==
  IF h = <<>> THEN [command |-> NoCommand, rest |-> <<>>]
  ELSE [command |-> Last(h), rest |-> h]

\* this.history.pop(): undefined on an empty array
PopCommand(h) ==
  IF h = <<>> THEN [command |-> NoCommand, rest |-> <<>>]
  ELSE [command |-> Last(h), rest |-> Front(h)]

NoCall ==
  [op |-> "none", pre |-> <<>>, outcome |-> "returned", threwIn |-> "none",
   target |-> NoCommand, effects |-> <<>>]

\* history variable mark: k commands were applied by a call that found
\* the history h.  A run of applied commands starts with the first command
\* applied after an undo() call.
Performed(m, h, k) ==
  IF k = 0 THEN m
  ELSE IF m.undos > 0 THEN [pre |-> h, performs |-> k, undos |-> 0]
  ELSE [m EXCEPT !.performs = @ + k]

\* history variable mark: undo() was called once more (counted up to one
\* call past the commands of the run)
UndoCalled(m) ==
  IF m.undos > m.performs THEN m ELSE [m EXCEPT !.undos = @ + 1]

SetOnStart(c) ==
  /\ onStart' = c
  /\ invCall' = [NoCall EXCEPT !.op = "setOnStart", !.pre = history]
  /\ UNCHANGED <<onFinish, history, live, mark, stateVars, subjectVars, mediatorVars, serialVars, chainVars, singletonVars, proxyVars, compositeVars, bridgeVars, iteratorVars>>

SetOnFinish(c) ==
  /\ onFinish' = c
  /\ invCall' = [NoCall EXCEPT !.op = "setOnFinish", !.pre = history]
  /\ UNCHANGED <<onStart, history, live, mark, stateVars, subjectVars, mediatorVars, serialVars, chainVars, singletonVars, proxyVars, compositeVars, bridgeVars, iteratorVars>>

\* How many of the calls of c.execute() or c.undo() may take effect: all
\* of them, or fewer when a method of the ComplexCommand's receiver
\* throws.  A SimpleCommand only logs.  An undefined command is skipped.
Progress(c, calls) ==
  IF c = NoCommand THEN {0}
  ELSE IF c.kind = "ComplexCommand" THEN 0 .. Len(calls)
  ELSE {Len(calls)}

\* Invoker.doSomethingImportant: n1 and n2 calls of onStart.execute() and
\* onFinish.execute() take effect
DoSomethingImportant(n1, n2) ==
  /\ Len(history) + 2 <= MaxHistory
  /\ LET first == IF onStart = NoCommand
                    THEN [history |-> history, effects |-> <<>>, ok |-> TRUE]
                    ELSE Apply(history, onStart, n1)
         second == IF onFinish = NoCommand \/ ~first.ok
                     THEN [history |-> first.history, effects |-> <<>>,
                           ok |-> TRUE]
                     ELSE Apply(first.history, onFinish, n2)
         liveFirst == IF onStart # NoCommand /\ first.ok
                        THEN Append(live, onStart) ELSE live
         liveSecond == IF onFinish # NoCommand /\ first.ok /\ second.ok
                         THEN Append(liveFirst, onFinish) ELSE liveFirst
     IN /\ IF first.ok THEN n2 \in Progress(onFinish, ExecuteCalls(onFinish))
                      ELSE n2 = 0
        /\ history' = second.history
        /\ live' = liveSecond
        /\ mark' = Performed(mark, history, Len(liveSecond) - Len(live))
        /\ invCall' =
             [op |-> "doSomethingImportant", pre |-> history,
              outcome |-> IF first.ok /\ second.ok THEN "returned" ELSE "threw",
              threwIn |-> IF ~first.ok THEN "onStart"
                          ELSE IF ~second.ok THEN "onFinish" ELSE "none",
              target |-> IF ~first.ok THEN onStart
                         ELSE IF ~second.ok THEN onFinish ELSE NoCommand,
              effects |-> first.effects \o second.effects]
  /\ UNCHANGED <<onStart, onFinish, stateVars, subjectVars, mediatorVars, serialVars, chainVars, singletonVars, proxyVars, compositeVars, bridgeVars, iteratorVars>>

\* mutant of Undo: an empty history is reported to the caller as an error
UndoThrowsOnEmpty(n) ==
  LET p == PopCommand(history)
  IN IF p.command # NoCommand
       THEN LET r == Run(UndoCalls(p.command), n)
            IN /\ n \in Progress(p.command, UndoCalls(p.command))
               /\ history' = p.rest
               /\ live' = RemoveLast(live, p.command)
               /\ mark' = UndoCalled(mark)
               /\ invCall' =
                    [op |-> "undo", pre |-> history,
                     outcome |-> IF r.ok THEN "returned" ELSE "threw",
                     threwIn |-> IF r.ok THEN "none" ELSE "undo",
                     target |-> p.command, effects |-> r.effects]
               /\ UNCHANGED <<onStart, onFinish, stateVars, subjectVars, mediatorVars, serialVars, chainVars, singletonVars, proxyVars, compositeVars, bridgeVars, iteratorVars>>
       ELSE /\ n = 0
            /\ history' = p.rest
            /\ mark' = UndoCalled(mark)
            /\ invCall' = [NoCall EXCEPT !.op = "undo", !.pre = history,
                                         !.outcome = "threw"]
            /\ UNCHANGED <<onStart, onFinish, live, stateVars, subjectVars, mediatorVars, serialVars, chainVars, singletonVars, proxyVars, compositeVars, bridgeVars, iteratorVars>>

\* Invoker.undo
Undo(n) ==
  LET p == PopCommand(history)
  IN IF p.command # NoCommand
       THEN LET r == Run(UndoCalls(p.command), n)
            IN /\ n \in Progress(p.command, UndoCalls(p.command))
               /\ history' = p.rest
               /\ live' = RemoveLast(live, p.command)
               /\ mark' = UndoCalled(mark)
               /\ invCall' =
                    [op |-> "undo", pre |-> history,
                     outcome |-> IF r.ok THEN "returned" ELSE "threw",
                     threwIn |-> IF r.ok THEN "none" ELSE "undo",
                     target |-> p.command, effects |-> r.effects]
               /\ UNCHANGED <<onStart, onFinish, stateVars, subjectVars, mediatorVars, serialVars, chainVars, singletonVars, proxyVars, compositeVars, bridgeVars, iteratorVars>>
       ELSE /\ n = 0
            /\ history' = p.rest
            /\ mark' = UndoCalled(mark)
            /\ invCall' = [NoCall EXCEPT !.op = "undo", !.pre = history]
            /\ UNCHANGED <<onStart, onFinish, live, stateVars, subjectVars, mediatorVars, serialVars, chainVars, singletonVars, proxyVars, compositeVars, bridgeVars, iteratorVars>>

InitInvoker ==
  /\ onStart = NoCommand
  /\ onFinish = NoCommand
  /\ history = <<>>
  /\ live = <<>>
  /\ invCall = NoCall
  /\ mark = [pre |-> <<>>, performs |-> 0, undos |-> 0]

NextInvoker ==
  \/ \E c \in Commands : SetOnStart(c)
  \/ \E c \in Commands : SetOnFinish(c)
  \/ \E n1 \in Progress(onStart, ExecuteCalls(onStart)),
        n2 \in {0} \cup Progress(onFinish, ExecuteCalls(onFinish)) :
       DoSomethingImportant(n1, n2)
  \/ \E n \in 0 .. 2 : Undo(n)

\* =================================================================
\* state.ts
\* =================================================================
DocStates == {"DraftState", "ModerationState", "PublishedState"}

DocRequests == {"publish", "review", "reject"}

\* mutant of DocTarget: DraftState.review publishes the draft directly
DocTargetDraftReviewPublishes(s, req) ==
  IF s = "DraftState"
    THEN (IF req = "publish" THEN "ModerationState"
          ELSE IF req = "review" THEN "PublishedState" ELSE "none")
  ELSE IF s = "ModerationState"
    THEN (IF req = "review" THEN "PublishedState"
          ELSE IF req = "reject" THEN "DraftState" ELSE "none")
  ELSE (IF req = "reject" THEN "DraftState" ELSE "none")

\* The state the handler req of state class s passes to
\* document.changeState, or "none" when the handler only logs.
DocTarget(s, req) ==
  IF s = "DraftState"
    THEN (IF req = "publish" THEN "ModerationState" ELSE "none")
  ELSE IF s = "ModerationState"
    THEN (IF req = "review" THEN "PublishedState"
          ELSE IF req = "reject" THEN "DraftState" ELSE "none")
  ELSE (IF req = "reject" THEN "DraftState" ELSE "none")

\* Document.changeState and Context.transitionTo: 'this.state = state'
\* and then the call of state.setDocument(this) / state.setContext(this),
\* which completes (hookOk) or, in a state object of the client, throws.
ChangeState(from, to, hookOk) ==
  [state |-> to, outcome |-> IF hookOk THEN "returned" ELSE "threw"]

NoDocCall ==
  [op |-> "none", from |-> "DraftState", target |-> "none",
   outcome |-> "returned"]

\* Document.render: the text of the current state, which stays as it is
Render ==
  /\ docCall' = [op |-> "render", from |-> docState, target |-> "none",
                 outcome |-> "returned"]
  /\ UNCHANGED <<docState, ctxState, ctxCall, invokerVars, subjectVars, mediatorVars, serialVars, chainVars, singletonVars, proxyVars, compositeVars, bridgeVars, iteratorVars>>

\* Document.publish / review / reject: delegation to the current state,
\* whose handler passes a new state object of the repository's classes to
\* changeState or only logs
DocRequest(req) ==
  LET to == DocTarget(docState, req)
      r == ChangeState(docState, to, TRUE)
  IN /\ docState' = IF to = "none" THEN docState ELSE r.state
     /\ docCall' = [op |-> req, from |-> docState, target |-> to,
                    outcome |-> IF to = "none" THEN "returned" ELSE r.outcome]
     /\ UNCHANGED <<ctxState, ctxCall, invokerVars, subjectVars, mediatorVars, serialVars, chainVars, singletonVars, proxyVars, compositeVars, bridgeVars, iteratorVars>>

\* Document.changeState called by the client with a state object of class
\* to or of a subclass of it
DocChangeState(to, hookOk) ==
  LET r == ChangeState(docState, to, hookOk)
  IN /\ docState' = r.state
     /\ docCall' = [op |-> "changeState", from |-> docState, target |-> to,
                    outcome |-> r.outcome]
     /\ UNCHANGED <<ctxState, ctxCall, invokerVars, subjectVars, mediatorVars, serialVars, chainVars, singletonVars, proxyVars, compositeVars, bridgeVars, iteratorVars>>

CtxStates == {"ConcreteStateA", "ConcreteStateB"}

\* ConcreteStateA.handle1/handle2 and ConcreteStateB.handle1/handle2
CtxTarget(s, req) ==
  IF s = "ConcreteStateA" /\ req = "request1" THEN "ConcreteStateB"
  ELSE IF s = "ConcreteStateB" /\ req = "request2" THEN "ConcreteStateA"
  ELSE "none"

NoCtxCall ==
  [op |-> "none", from |-> "ConcreteStateA", target |-> "none",
   outcome |-> "returned"]

\* Context.request1 / request2
CtxRequest(req) ==
  LET to == CtxTarget(ctxState, req)
      r == ChangeState(ctxState, to, TRUE)
  IN /\ ctxState' = IF to = "none" THEN ctxState ELSE r.state
     /\ ctxCall' = [op |-> req, from |-> ctxState, target |-> to,
                    outcome |-> IF to = "none" THEN "returned" ELSE r.outcome]
     /\ UNCHANGED <<docState, docCall, invokerVars, subjectVars, mediatorVars, serialVars, chainVars, singletonVars, proxyVars, compositeVars, bridgeVars, iteratorVars>>

\* Context.transitionTo called by the client with a state object of class
\* to or of a subclass of it
CtxTransitionTo(to, hookOk) ==
  LET r == ChangeState(ctxState, to, hookOk)
  IN /\ ctxState' = r.state
     /\ ctxCall' = [op |-> "transitionTo", from |-> ctxState, target |-> to,
                    outcome |-> r.outcome]
     /\ UNCHANGED <<docState, docCall, invokerVars, subjectVars, mediatorVars, serialVars, chainVars, singletonVars, proxyVars, compositeVars, bridgeVars, iteratorVars>>

\* new Document(name): DraftState; new Context(new ConcreteStateA())
InitState ==
  /\ docState = "DraftState"
  /\ docCall = NoDocCall
  /\ ctxState = "ConcreteStateA"
  /\ ctxCall = NoCtxCall

NextState ==
  \/ Render
  \/ \E req \in DocRequests : DocRequest(req)
  \/ \E to \in DocStates, hookOk \in BOOLEAN : DocChangeState(to, hookOk)
  \/ \E req \in {"request1", "request2"} : CtxRequest(req)
  \/ \E to \in CtxStates, hookOk \in BOOLEAN : CtxTransitionTo(to, hookOk)

\* =================================================================
\* flyweight.ts, the observer section
\* =================================================================
Observers == {"observer1", "observer2", "observer3"}

\* 'public state: number' before the first someBusinessLogic()
NoSubjState == -1

\* Math.floor(Math.random() * (10 + 1))
MaxRandom == 10

RandomStates == 0 .. MaxRandom

IndexOf(s, x) ==
  IF \E i \in 1 .. Len(s) : s[i] = x
    THEN CHOOSE i \in 1 .. Len(s) : s[i] = x /\ \A j \in 1 .. i - 1 : s[j] # x
    ELSE 0

\* mutant of AttachTo: the observer is pushed without the includes() test
AttachAlways(obs, o) == Append(obs, o)

\* ConcreteSubject.attach: an observer already in the list is not added
AttachTo(obs, o) == IF IndexOf(obs, o) # 0 THEN obs ELSE Append(obs, o)

\* mutant of DetachFrom: without the test for -1, splice(-1, 1) removes
\* the last observer when the given one is not in the list
DetachSpliceMinusOne(obs, o) ==
  LET i == IndexOf(obs, o)
  IN IF i = 0 THEN SubSeq(obs, 1, Len(obs) - 1)
     ELSE SubSeq(obs, 1, i - 1) \o SubSeq(obs, i + 1, Len(obs))

\* ConcreteSubject.detach: splice(indexOf(observer), 1), or nothing when
\* the observer is not in the list
DetachFrom(obs, o) ==
  LET i == IndexOf(obs, o)
  IN IF i = 0 THEN obs
     ELSE SubSeq(obs, 1, i - 1) \o SubSeq(obs, i + 1, Len(obs))

\* What one invocation of Observer.update may do: return, throw, or call
\* subject.attach / subject.detach before returning.
Behaviours ==
  {[kind |-> "return", who |-> ""], [kind |-> "throw", who |-> ""]}
  \cup [kind : {"attach", "detach"}, who : Observers]

AfterUpdate(obs, b) ==
  IF b.kind = "attach" THEN AttachTo(obs, b.who)
  ELSE IF b.kind = "detach" THEN DetachFrom(obs, b.who)
  ELSE obs

RECURSIVE NotifyFrom(_, _, _, _)
\* 'for (const observer of this.observers) observer.update(this)' from
\* index i on: the array iterator reads this.observers[i] of the array as
\* it is at that moment and stops when i passes its current length.  The
\* set of the runs the handlers' behaviours allow.
NotifyFrom(obs, i, delivered, touched) ==
  IF i > Len(obs)
    THEN {[observers |-> obs, delivered |-> delivered,
           outcome |-> "returned", thrower |-> "", touched |-> touched]}
    ELSE UNION {
      IF b.kind = "throw"
        THEN {[observers |-> obs, delivered |-> Append(delivered, obs[i]),
               outcome |-> "threw", thrower |-> obs[i], touched |-> touched]}
        ELSE NotifyFrom(AfterUpdate(obs, b), i + 1, Append(delivered, obs[i]),
                        touched \/ b.kind # "return")
      : b \in Behaviours }

\* ConcreteSubject.notify
NotifyRuns(obs) == NotifyFrom(obs, 1, <<>>, FALSE)

\* The record of a call: delivered are the observers whose update ran, in
\* order, and events[i] is the notify() call delivery i belongs to, the
\* calls numbered in the order they started.
NoSubjCall ==
  [op |-> "none", pre |-> <<>>, delivered |-> <<>>, events |-> <<>>,
   outcome |-> "returned", thrower |-> "", touched |-> FALSE,
   seen |-> NoSubjState]

FirstEvent(delivered) == [i \in 1 .. Len(delivered) |-> 1]

Attach(o) ==
  /\ observers' = AttachTo(observers, o)
  /\ subjCall' = [NoSubjCall EXCEPT !.op = "attach", !.pre = observers,
                                    !.thrower = o]
  /\ UNCHANGED <<subjState, invokerVars, stateVars, mediatorVars, serialVars, chainVars, singletonVars, proxyVars, compositeVars, bridgeVars, iteratorVars>>

Detach(o) ==
  /\ observers' = DetachFrom(observers, o)
  /\ subjCall' = [NoSubjCall EXCEPT !.op = "detach", !.pre = observers,
                                    !.thrower = o]
  /\ UNCHANGED <<subjState, invokerVars, stateVars, mediatorVars, serialVars, chainVars, singletonVars, proxyVars, compositeVars, bridgeVars, iteratorVars>>

Notify(r) ==
  /\ observers' = r.observers
  /\ subjCall' = [op |-> "notify", pre |-> observers,
                  delivered |-> r.delivered,
                  events |-> FirstEvent(r.delivered), outcome |-> r.outcome,
                  thrower |-> r.thrower, touched |-> r.touched,
                  seen |-> subjState]
  /\ UNCHANGED <<subjState, invokerVars, stateVars, mediatorVars, serialVars, chainVars, singletonVars, proxyVars, compositeVars, bridgeVars, iteratorVars>>

\* mutant of BusinessLogic: notify() is called before the assignment
BusinessLogicNotifyFirst(old, v) == [state |-> v, seen |-> old]

\* 'this.state = v; this.notify()': the state the subject holds afterwards
\* and the state the observers read from it during the notification
BusinessLogic(old, v) == [state |-> v, seen |-> v]

SomeBusinessLogic(v, r) ==
  /\ subjState' = BusinessLogic(subjState, v).state
  /\ observers' = r.observers
  /\ subjCall' = [op |-> "someBusinessLogic", pre |-> observers,
                  delivered |-> r.delivered,
                  events |-> FirstEvent(r.delivered), outcome |-> r.outcome,
                  thrower |-> r.thrower, touched |-> r.touched,
                  seen |-> BusinessLogic(subjState, v).seen]
  /\ UNCHANGED <<invokerVars, stateVars, mediatorVars, serialVars, chainVars, singletonVars, proxyVars, compositeVars, bridgeVars, iteratorVars>>

RECURSIVE ReentrantFrom(_, _, _, _)
\* notify() from index i on when the handlers of the observers at the
\* indices in again call subject.notify() themselves, once each, and every
\* other handler returns: the deliveries <<observer, notify() call>> in the
\* order they happen.  A nested call runs to its end inside the handler.
ReentrantFrom(obs, i, next, again) ==
  IF i > Len(obs) THEN <<>>
  ELSE << <<obs[i], 1>> >>
       \o (IF i \in again THEN [j \in 1 .. Len(obs) |-> <<obs[j], next>>]
                           ELSE <<>>)
       \o ReentrantFrom(obs, i + 1, IF i \in again THEN next + 1 ELSE next,
                        again)

\* ConcreteSubject.notify with handlers that call subject.notify()
NotifyReentrant(again) ==
  LET d == ReentrantFrom(observers, 1, 2, again)
  IN /\ again \subseteq 1 .. Len(observers)
     /\ subjCall' = [op |-> "notify", pre |-> observers,
                     delivered |-> [k \in 1 .. Len(d) |-> d[k][1]],
                     events |-> [k \in 1 .. Len(d) |-> d[k][2]],
                     outcome |-> "returned", thrower |-> "",
                     touched |-> FALSE, seen |-> subjState]
     /\ UNCHANGED <<observers, subjState, invokerVars, stateVars, mediatorVars, serialVars, chainVars, singletonVars, proxyVars, compositeVars, bridgeVars, iteratorVars>>

InitSubject ==
  /\ observers = <<>>
  /\ subjState = NoSubjState
  /\ subjCall = NoSubjCall

NextSubject ==
  \/ \E o \in Observers : Attach(o)
  \/ \E o \in Observers : Detach(o)
  \/ \E r \in NotifyRuns(observers) : Notify(r)
  \/ \E v \in RandomStates, r \in NotifyRuns(observers) :
       SomeBusinessLogic(v, r)

NextReentrant ==
  \/ \E o \in Observers : Attach(o)
  \/ \E o \in Observers : Detach(o)
  \/ \E again \in SUBSET (1 .. Len(observers)) : NotifyReentrant(again)

\* =================================================================
\* the mediator file: ConcreteMediator, ChatRoom
\* =================================================================
\* who calls notify: the two components, or any other object
Senders == {"component1", "component2", "client"}

Events == {"A", "D", "C"}

\* mutant of Reactions: the reactions to 'A' run for 'D' as well
ReactionsFallThrough(sender, event) ==
  IF event = "A" THEN <<"Component2.doC">>
  ELSE IF event = "D"
    THEN <<"Component2.doC", "Component1.doB", "Component2.doC">>
  ELSE <<>>

\* ConcreteMediator.notify(sender, event): the methods it calls, in order.
\* The sender is not looked at.
Reactions(sender, event) ==
  IF event = "A" THEN <<"Component2.doC">>
  ELSE IF event = "D" THEN <<"Component1.doB", "Component2.doC">>
  ELSE <<>>

NoMedCall ==
  [op |-> "none", sender |-> "client", event |-> "C", reactions |-> <<>>,
   depth |-> 0, outcome |-> "returned"]

\* ConcreteMediator.notify called with any sender and event; doB and doC
\* of Component1 and Component2 only log
MediatorNotify(sender, event) ==
  /\ medCall' = [op |-> "notify", sender |-> sender, event |-> event,
                 reactions |-> Reactions(sender, event), depth |-> 1,
                 outcome |-> "returned"]
  /\ UNCHANGED <<chatUsers, chatCall, invokerVars, stateVars, subjectVars, serialVars, chainVars, singletonVars, proxyVars, compositeVars, bridgeVars, iteratorVars>>

\* Component1.doA: this.mediator.notify(this, 'A')
DoA ==
  /\ medCall' = [op |-> "doA", sender |-> "component1", event |-> "A",
                 reactions |-> Reactions("component1", "A"), depth |-> 1,
                 outcome |-> "returned"]
  /\ UNCHANGED <<chatUsers, chatCall, invokerVars, stateVars, subjectVars, serialVars, chainVars, singletonVars, proxyVars, compositeVars, bridgeVars, iteratorVars>>

\* Component2.doD: this.mediator.notify(this, 'D')
DoD ==
  /\ medCall' = [op |-> "doD", sender |-> "component2", event |-> "D",
                 reactions |-> Reactions("component2", "D"), depth |-> 1,
                 outcome |-> "returned"]
  /\ UNCHANGED <<chatUsers, chatCall, invokerVars, stateVars, subjectVars, serialVars, chainVars, singletonVars, proxyVars, compositeVars, bridgeVars, iteratorVars>>

UserNames == {"Alice", "Bob", "Charlie"}

\* the ChatUser objects of the client: two objects may carry one name
ChatUsers == [name : UserNames, id : {"first", "second"}]

HasName(users, n) == \E i \in 1 .. Len(users) : users[i].name = n

\* mutant of RegisterUser: this.users.set(name, user) without the has()
\* test, which replaces the value of an existing key in place
RegisterReplace(users, u) ==
  IF HasName(users, u.name)
    THEN [i \in 1 .. Len(users) |->
            IF users[i].name = u.name THEN u ELSE users[i]]
    ELSE Append(users, u)

\* ChatRoom.register: a user is added only when no user of that name is
\* in the map
RegisterUser(users, u) ==
  IF HasName(users, u.name) THEN users ELSE Append(users, u)

\* mutant of Recipients: the sender is not left out
RecipientsAll(users, sender) == users

\* ChatRoom.send: users.forEach in insertion order, the entries whose key
\* is the sender's name left out
Recipients(users, sender) ==
  LET Other(u) == u.name # sender.name IN SelectSeq(users, Other)

NoChatCall ==
  [op |-> "none", user |-> [name |-> "Alice", id |-> "first"], pre |-> <<>>,
   received |-> <<>>, outcome |-> "returned"]

Register(u) ==
  /\ chatUsers' = RegisterUser(chatUsers, u)
  /\ chatCall' = [NoChatCall EXCEPT !.op = "register", !.user = u,
                                    !.pre = chatUsers]
  /\ UNCHANGED <<medCall, invokerVars, stateVars, subjectVars, serialVars, chainVars, singletonVars, proxyVars, compositeVars, bridgeVars, iteratorVars>>

\* ChatRoom.send(message, sender), the sender any User
RoomSend(u) ==
  /\ chatCall' = [NoChatCall EXCEPT !.op = "send", !.user = u,
                                    !.pre = chatUsers,
                                    !.received = Recipients(chatUsers, u)]
  /\ UNCHANGED <<chatUsers, medCall, invokerVars, stateVars, subjectVars, serialVars, chainVars, singletonVars, proxyVars, compositeVars, bridgeVars, iteratorVars>>

\* ChatUser.send: this.chatRoom.send(message, this).  chatRoom is set by
\* the register call that added this object and is undefined otherwise.
UserSend(u) ==
  /\ chatCall' =
       IF \E i \in 1 .. Len(chatUsers) : chatUsers[i] = u
         THEN [NoChatCall EXCEPT !.op = "userSend", !.user = u,
                                 !.pre = chatUsers,
                                 !.received = Recipients(chatUsers, u)]
         ELSE [NoChatCall EXCEPT !.op = "userSend", !.user = u,
                                 !.pre = chatUsers, !.outcome = "threw"]
  /\ UNCHANGED <<chatUsers, medCall, invokerVars, stateVars, subjectVars, serialVars, chainVars, singletonVars, proxyVars, compositeVars, bridgeVars, iteratorVars>>

\* A component given to the mediator may override a reaction so that it
\* calls this.mediator.notify again (a subclass of Component2 whose doC
\* sends 'D').  notify is then entered from inside notify; the chain ends
\* when the component stops sending.  more: the notify calls still to be
\* made from inside doC; depth: the notify frames on the stack at once.
RECURSIVE NotifyNested(_, _)
NotifyNested(level, more) ==
  IF more = 0
    THEN [reactions |-> Reactions("component2", "D"), depth |-> level]
    ELSE LET inner == NotifyNested(level + 1, more - 1)
         IN [reactions |-> Reactions("component2", "D") \o inner.reactions,
             depth |-> inner.depth]

\* component2.doD() with such a component
NestedNotify(more) ==
  LET run == NotifyNested(1, more)
  IN /\ medCall' = [op |-> "nested", sender |-> "component2", event |-> "D",
                    reactions |-> run.reactions, depth |-> run.depth,
                    outcome |-> "returned"]
     /\ UNCHANGED <<chatUsers, chatCall, invokerVars, stateVars, subjectVars, serialVars, chainVars, singletonVars, proxyVars, compositeVars, bridgeVars, iteratorVars>>

InitMediator ==
  /\ chatUsers = <<>>
  /\ chatCall = NoChatCall
  /\ medCall = NoMedCall

NextMediator ==
  \/ \E sender \in Senders, event \in Events : MediatorNotify(sender, event)
  \/ DoA
  \/ DoD
  \/ \E u \in ChatUsers : Register(u)
  \/ \E u \in ChatUsers : RoomSend(u)
  \/ \E u \in ChatUsers : UserSend(u)

NextRouting ==
  \/ NextMediator
  \/ \E more \in 1 .. MaxNesting - 1 : NestedNotify(more)

\* =================================================================
\* command.ts, the Invoker statement by statement, called by two callers
\* =================================================================
Callers == {"caller1", "caller2"}

Idle == [op |-> "none", pc |-> 0, command |-> NoCommand]

\* mutant of CanAccept: a call is entered while another is in progress
CanAcceptAlways(r) == TRUE

\* doSomethingImportant, undo and the setters are synchronous methods (no
\* async, no await, no callback): a call, once entered, runs to its end on
\* the one thread before any other call of any caller is entered.
CanAccept(r) == \A c \in Callers : r[c].op = "none"

CallSetOnStart(caller, c) ==
  /\ CanAccept(running)
  /\ stepOnStart' = c
  /\ UNCHANGED <<stepOnFinish, stepHistory, running, invokerVars, stateVars, subjectVars, mediatorVars, chainVars, singletonVars, proxyVars, compositeVars, bridgeVars, iteratorVars>>

CallSetOnFinish(caller, c) ==
  /\ CanAccept(running)
  /\ stepOnFinish' = c
  /\ UNCHANGED <<stepOnStart, stepHistory, running, invokerVars, stateVars, subjectVars, mediatorVars, chainVars, singletonVars, proxyVars, compositeVars, bridgeVars, iteratorVars>>

\* a caller enters doSomethingImportant (line 126)
CallDoSomethingImportant(caller) ==
  /\ CanAccept(running)
  /\ Len(stepHistory) + 2 <= MaxHistory
  /\ running' = [running EXCEPT ![caller] =
                   [op |-> "doSomethingImportant", pc |-> 128,
                    command |-> NoCommand]]
  /\ UNCHANGED <<stepOnStart, stepOnFinish, stepHistory, invokerVars, stateVars, subjectVars, mediatorVars, chainVars, singletonVars, proxyVars, compositeVars, bridgeVars, iteratorVars>>

\* lines 128-129 and 136-137: the test of the command and its execute(),
\* which returns (ok) or throws out of doSomethingImportant
StepExecute(caller, ok) ==
  LET r == running[caller]
      c == IF r.pc = 128 THEN stepOnStart ELSE stepOnFinish
  IN /\ r.op = "doSomethingImportant"
     /\ r.pc \in {128, 136}
     /\ ok \/ (c # NoCommand /\ c.kind = "ComplexCommand")
     /\ running' = [running EXCEPT ![caller] =
          IF c = NoCommand
            THEN (IF r.pc = 128 THEN [r EXCEPT !.pc = 136] ELSE Idle)
          ELSE IF ok THEN [r EXCEPT !.pc = @ + 2, !.command = c]
          ELSE Idle]
     /\ UNCHANGED <<stepOnStart, stepOnFinish, stepHistory, invokerVars, stateVars, subjectVars, mediatorVars, chainVars, singletonVars, proxyVars, compositeVars, bridgeVars, iteratorVars>>

\* lines 130 and 138: this.history.push(command)
StepPush(caller) ==
  LET r == running[caller]
  IN /\ r.op = "doSomethingImportant"
     /\ r.pc \in {130, 138}
     /\ stepHistory' = Append(stepHistory, r.command)
     /\ running' = [running EXCEPT ![caller] =
          IF r.pc = 130 THEN [r EXCEPT !.pc = 136, !.command = NoCommand]
          ELSE Idle]
     /\ UNCHANGED <<stepOnStart, stepOnFinish, invokerVars, stateVars, subjectVars, mediatorVars, chainVars, singletonVars, proxyVars, compositeVars, bridgeVars, iteratorVars>>

\* a caller enters undo (line 145)
CallUndo(caller) ==
  /\ CanAccept(running)
  /\ running' = [running EXCEPT ![caller] =
                   [op |-> "undo", pc |-> 146, command |-> NoCommand]]
  /\ UNCHANGED <<stepOnStart, stepOnFinish, stepHistory, invokerVars, stateVars, subjectVars, mediatorVars, chainVars, singletonVars, proxyVars, compositeVars, bridgeVars, iteratorVars>>

\* line 146: const command = this.history.pop(); an undefined command is
\* only logged (line 151)
StepPop(caller) ==
  LET r == running[caller]
      p == PopCommand(stepHistory)
  IN /\ r.op = "undo"
     /\ r.pc = 146
     /\ stepHistory' = p.rest
     /\ running' = [running EXCEPT ![caller] =
          IF p.command = NoCommand THEN Idle
          ELSE [r EXCEPT !.pc = 149, !.command = p.command]]
     /\ UNCHANGED <<stepOnStart, stepOnFinish, invokerVars, stateVars, subjectVars, mediatorVars, chainVars, singletonVars, proxyVars, compositeVars, bridgeVars, iteratorVars>>

\* line 149: command.undo(), which returns or throws; undo ends either way
StepUndo(caller) ==
  LET r == running[caller]
  IN /\ r.op = "undo"
     /\ r.pc = 149
     /\ running' = [running EXCEPT ![caller] = Idle]
     /\ UNCHANGED <<stepOnStart, stepOnFinish, stepHistory, invokerVars, stateVars, subjectVars, mediatorVars, chainVars, singletonVars, proxyVars, compositeVars, bridgeVars, iteratorVars>>

InitSerial ==
  /\ stepOnStart = NoCommand
  /\ stepOnFinish = NoCommand
  /\ stepHistory = <<>>
  /\ running = [c \in Callers |-> Idle]

NextSerial ==
  \/ \E caller \in Callers, c \in Commands : CallSetOnStart(caller, c)
  \/ \E caller \in Callers, c \in Commands : CallSetOnFinish(caller, c)
  \/ \E caller \in Callers : CallDoSomethingImportant(caller)
  \/ \E caller \in Callers, ok \in BOOLEAN : StepExecute(caller, ok)
  \/ \E caller \in Callers : StepPush(caller)
  \/ \E caller \in Callers : CallUndo(caller)
  \/ \E caller \in Callers : StepPop(caller)
  \/ \E caller \in Callers : StepUndo(caller)

\* =================================================================
\* the chain of responsibility file: LoggerHandler
\* =================================================================
Loggers == {"ConsoleInfoLogger", "FileDebugLogger", "EmailErrorLogger"}

\* the level each logger class passes to super(): LogLevel.INFO = 1,
\* DEBUG = 2, ERROR = 3
LoggerLevel(h) ==
  IF h = "ConsoleInfoLogger" THEN 1 ELSE IF h = "FileDebugLogger" THEN 2 ELSE 3

\* the part of a request before its first ':'
LevelStrings == {"0", "1", "2", "3", "4", "info"}

\* Number(levelStr): the number written, or NaN
ToNumber(levelStr) ==
  IF levelStr = "0" THEN [nan |-> FALSE, n |-> 0]
  ELSE IF levelStr = "1" THEN [nan |-> FALSE, n |-> 1]
  ELSE IF levelStr = "2" THEN [nan |-> FALSE, n |-> 2]
  ELSE IF levelStr = "3" THEN [nan |-> FALSE, n |-> 3]
  ELSE IF levelStr = "4" THEN [nan |-> FALSE, n |-> 4]
  ELSE [nan |-> TRUE, n |-> 0]

\* level >= this.level; every comparison with NaN is false
AtLeast(level, min) == ~level.nan /\ level.n >= min

\* the test of LoggerHandler.handle
Handles(h, level) == AtLeast(level, LoggerLevel(h))

\* LoggerHandler.handle of logger h: the logger whose log() produces the
\* result, or "null" at the end of the chain.  A chain that leads back to
\* a logger already passed recurses until the stack is exhausted.
RECURSIVE HandleFrom(_, _, _, _)
HandleFrom(next, h, level, passed) ==
  IF Handles(h, level) THEN [handler |-> h, outcome |-> "returned"]
  ELSE IF next[h] = "undefined"
    THEN [handler |-> "null", outcome |-> "returned"]
  ELSE IF next[h] \in passed \cup {h}
    THEN [handler |-> "null", outcome |-> "stack overflow"]
  ELSE HandleFrom(next, next[h], level, passed \cup {h})

NoLogCall ==
  [op |-> "none", entry |-> "ConsoleInfoLogger", levelStr |-> "0",
   handler |-> "null", outcome |-> "returned"]

\* LoggerHandler.setNext
SetNext(h, n) ==
  /\ nextHandler' = [nextHandler EXCEPT ![h] = n]
  /\ logCall' = NoLogCall
  /\ UNCHANGED <<invokerVars, stateVars, subjectVars, mediatorVars, serialVars, singletonVars, proxyVars, compositeVars, bridgeVars, iteratorVars>>

\* LoggerHandler.handle(levelStr + ':' + message) called on logger entry
Handle(entry, levelStr) ==
  LET r == HandleFrom(nextHandler, entry, ToNumber(levelStr), {})
  IN /\ logCall' = [op |-> "handle", entry |-> entry, levelStr |-> levelStr,
                    handler |-> r.handler, outcome |-> r.outcome]
     /\ UNCHANGED <<nextHandler, invokerVars, stateVars, subjectVars, mediatorVars, serialVars, singletonVars, proxyVars, compositeVars, bridgeVars, iteratorVars>>

InitChain ==
  /\ nextHandler = [h \in Loggers |-> "undefined"]
  /\ logCall = NoLogCall

NextChain ==
  \/ \E h \in Loggers, n \in Loggers : SetNext(h, n)
  \/ \E entry \in Loggers, levelStr \in LevelStrings : Handle(entry, levelStr)

\* =================================================================
\* singleton.ts
\* =================================================================
Hosts == {"localhost", "db1", "db2"}

Ports == {5432, 3306}

\* the static field before the first getInstance call (undefined)
NoInstance == [host |-> "", port |-> 0, id |-> 0]

\* new DatabaseConnection(host, port); id tells the objects apart: the
\* n-th object constructed has id n
NewConnection(host, port, n) == [host |-> host, port |-> port, id |-> n]

\* mutant of InstanceFor: a connection is constructed on every call
InstanceAlwaysNew(inst, host, port, n) == NewConnection(host, port, n + 1)

\* the if of getInstance: a connection is constructed only when the
\* static field holds none; n connections were constructed before
InstanceFor(inst, host, port, n) ==
  IF inst = NoInstance THEN NewConnection(host, port, n + 1) ELSE inst

NoConnCall ==
  [op |-> "none", host |-> "", port |-> 0, returned |-> NoInstance]

\* DatabaseConnection.getInstance(host, port)
GetInstance(host, port) ==
  LET i == InstanceFor(instance, host, port, constructed)
  IN /\ getCalls < MaxCalls
     /\ instance' = i
     /\ constructed' = IF i.id > constructed THEN constructed + 1
                       ELSE constructed
     /\ getCalls' = getCalls + 1
     /\ connCall' = [op |-> "getInstance", host |-> host, port |-> port,
                     returned |-> i]
     /\ UNCHANGED <<invokerVars, stateVars, subjectVars, mediatorVars, serialVars, chainVars, proxyVars, compositeVars, bridgeVars, iteratorVars>>

\* query and disconnect of a connection obtained from getInstance: they
\* log and leave the connection as it is
Query ==
  /\ instance # NoInstance
  /\ connCall' = [NoConnCall EXCEPT !.op = "query", !.returned = instance]
  /\ UNCHANGED <<instance, constructed, getCalls, invokerVars, stateVars, subjectVars, mediatorVars, serialVars, chainVars, proxyVars, compositeVars, bridgeVars, iteratorVars>>

Disconnect ==
  /\ instance # NoInstance
  /\ connCall' = [NoConnCall EXCEPT !.op = "disconnect",
                                    !.returned = instance]
  /\ UNCHANGED <<instance, constructed, getCalls, invokerVars, stateVars, subjectVars, mediatorVars, serialVars, chainVars, proxyVars, compositeVars, bridgeVars, iteratorVars>>

InitSingleton ==
  /\ instance = NoInstance
  /\ constructed = 0
  /\ getCalls = 0
  /\ connCall = NoConnCall

NextSingleton ==
  \/ \E host \in Hosts, port \in Ports : GetInstance(host, port)
  \/ Query
  \/ Disconnect

\* =================================================================
\* the proxy section of the facade file: RealSubject, Proxy,
\* ExpensiveOperationProxy
\* =================================================================
\* two cache proxies of the one real subject
CacheProxies == {"cacheProxy1", "cacheProxy2"}

\* the subjects the client calls request() on
Subjects == CacheProxies \cup {"proxy", "realSubject"}

\* mutant of Delegates: the cache is not consulted
DelegatesAlways(cached) == TRUE

\* the test of ExpensiveOperationProxy.request
Delegates(cached) == cached = "null"

NoProxyCall == [subject |-> "none", ordinal |-> 0, delegated |-> FALSE]

\* ExpensiveOperationProxy.request; RealSubject.request only logs
CacheProxyRequest(p) ==
  LET d == Delegates(cachedResult[p])
  IN /\ requests[p] < MaxCalls
     /\ requests' = [requests EXCEPT ![p] = @ + 1]
     /\ handled' = [handled EXCEPT ![p] = IF d THEN @ + 1 ELSE @]
     /\ cachedResult' =
          [cachedResult EXCEPT ![p] =
             IF d THEN "Result of expensive operation" ELSE @]
     /\ proxyCall' = [subject |-> p, ordinal |-> requests[p] + 1,
                      delegated |-> d]
     /\ UNCHANGED <<invokerVars, stateVars, subjectVars, mediatorVars, serialVars, chainVars, singletonVars, compositeVars, bridgeVars, iteratorVars>>

\* Proxy.request: checkAccess returns true, so the real subject is called
\* every time
ProxyRequest ==
  /\ requests["proxy"] < MaxCalls
  /\ requests' = [requests EXCEPT !["proxy"] = @ + 1]
  /\ handled' = [handled EXCEPT !["proxy"] = @ + 1]
  /\ proxyCall' = [subject |-> "proxy", ordinal |-> requests["proxy"] + 1,
                   delegated |-> TRUE]
  /\ UNCHANGED <<cachedResult, invokerVars, stateVars, subjectVars, mediatorVars, serialVars, chainVars, singletonVars, compositeVars, bridgeVars, iteratorVars>>

\* RealSubject.request called by the client directly
RealSubjectRequest ==
  /\ requests["realSubject"] < MaxCalls
  /\ requests' = [requests EXCEPT !["realSubject"] = @ + 1]
  /\ handled' = [handled EXCEPT !["realSubject"] = @ + 1]
  /\ proxyCall' = [subject |-> "realSubject",
                   ordinal |-> requests["realSubject"] + 1,
                   delegated |-> FALSE]
  /\ UNCHANGED <<cachedResult, invokerVars, stateVars, subjectVars, mediatorVars, serialVars, chainVars, singletonVars, compositeVars, bridgeVars, iteratorVars>>

InitProxy ==
  /\ cachedResult = [p \in CacheProxies |-> "null"]
  /\ requests = [s \in Subjects |-> 0]
  /\ handled = [s \in Subjects |-> 0]
  /\ proxyCall = NoProxyCall

NextProxy ==
  \/ \E p \in CacheProxies : CacheProxyRequest(p)
  \/ ProxyRequest
  \/ RealSubjectRequest

\* =================================================================
\* composite.ts
\* =================================================================
\* the components the client adds to and removes from one Composite
Components == {"Leaf1", "Leaf2", "Branch1"}

\* Array.splice(index, 1) with the index indexOf returned (from 0, or -1):
\* a negative index counts from the end of the array
SpliceOne(s, index) ==
  LET start == IF index < 0
                 THEN (IF Len(s) + index < 0 THEN 0 ELSE Len(s) + index)
                 ELSE (IF index > Len(s) THEN Len(s) ELSE index)
  IN [i \in 1 .. (IF start < Len(s) THEN Len(s) - 1 ELSE Len(s)) |->
        IF i <= start THEN s[i] ELSE s[i + 1]]

NoCompCall == [op |-> "none", component |-> "Leaf1", pre |-> <<>>]

\* Composite.add
Add(c) ==
  /\ Len(children) < MaxChildren
  /\ children' = Append(children, c)
  /\ parent' = [parent EXCEPT ![c] = "composite"]
  /\ compCall' = [op |-> "add", component |-> c, pre |-> children]
  /\ UNCHANGED <<invokerVars, stateVars, subjectVars, mediatorVars, serialVars, chainVars, singletonVars, proxyVars, bridgeVars, iteratorVars>>

\* Composite.remove
Remove(c) ==
  /\ children' = SpliceOne(children, IndexOf(children, c) - 1)
  /\ parent' = [parent EXCEPT ![c] = "null"]
  /\ compCall' = [op |-> "remove", component |-> c, pre |-> children]
  /\ UNCHANGED <<invokerVars, stateVars, subjectVars, mediatorVars, serialVars, chainVars, singletonVars, proxyVars, bridgeVars, iteratorVars>>

InitComposite ==
  /\ children = <<>>
  /\ parent = [c \in Components |-> "null"]
  /\ compCall = NoCompCall

NextComposite ==
  \/ \E c \in Components : Add(c)
  \/ \E c \in Components : Remove(c)

\* =================================================================
\* bridge.ts: Tv, Radio, RemoteControl, AdvancedRemoteControl
\* =================================================================
Devices == {"Tv", "Radio"}

\* a value of the type number: a number n, or NaN
Num(n) == [nan |-> FALSE, n |-> n]

NaN == [nan |-> TRUE, n |-> 0]

\* the arguments the client passes to setVolume
Percents == {Num(-10), Num(0), Num(5), Num(100), Num(105), Num(1000), NaN}

\* x + k and x - k of numbers: NaN stays NaN
Plus(x, k) == IF x.nan THEN NaN ELSE Num(x.n + k)

\* Tv.setVolume / Radio.setVolume: the value assigned to this.volume.
\* percent > 100 and percent < 0 are both false for NaN.
SetVolumeTo(percent) ==
  IF ~percent.nan /\ percent.n > 100 THEN Num(100)
  ELSE IF ~percent.nan /\ percent.n < 0 THEN Num(0)
  ELSE percent

NoRemoteCall == [op |-> "none", device |-> "Tv", percent |-> Num(0)]

\* Device.setVolume(percent) called by the client
SetVolume(d, percent) ==
  /\ volume' = [volume EXCEPT ![d] = SetVolumeTo(percent)]
  /\ remoteCall' = [op |-> "setVolume", device |-> d, percent |-> percent]
  /\ UNCHANGED <<invokerVars, stateVars, subjectVars, mediatorVars, serialVars, chainVars, singletonVars, proxyVars, compositeVars, iteratorVars>>

\* RemoteControl.volumeDown: setVolume(getVolume() - 10)
VolumeDown(d) ==
  /\ volume' = [volume EXCEPT ![d] = SetVolumeTo(Plus(volume[d], -10))]
  /\ remoteCall' = [op |-> "volumeDown", device |-> d,
                    percent |-> Plus(volume[d], -10)]
  /\ UNCHANGED <<invokerVars, stateVars, subjectVars, mediatorVars, serialVars, chainVars, singletonVars, proxyVars, compositeVars, iteratorVars>>

\* RemoteControl.volumeUp: setVolume(getVolume() + 10)
VolumeUp(d) ==
  /\ volume' = [volume EXCEPT ![d] = SetVolumeTo(Plus(volume[d], 10))]
  /\ remoteCall' = [op |-> "volumeUp", device |-> d,
                    percent |-> Plus(volume[d], 10)]
  /\ UNCHANGED <<invokerVars, stateVars, subjectVars, mediatorVars, serialVars, chainVars, singletonVars, proxyVars, compositeVars, iteratorVars>>

\* AdvancedRemoteControl.mute: setVolume(0)
Mute(d) ==
  /\ volume' = [volume EXCEPT ![d] = SetVolumeTo(Num(0))]
  /\ remoteCall' = [op |-> "mute", device |-> d, percent |-> Num(0)]
  /\ UNCHANGED <<invokerVars, stateVars, subjectVars, mediatorVars, serialVars, chainVars, singletonVars, proxyVars, compositeVars, iteratorVars>>

\* new Tv(): volume = 30; new Radio(): volume = 20
InitBridge ==
  /\ volume = [d \in Devices |-> IF d = "Tv" THEN Num(30) ELSE Num(20)]
  /\ remoteCall = NoRemoteCall

NextBridge ==
  \/ \E d \in Devices, percent \in Percents : SetVolume(d, percent)
  \/ \E d \in Devices : VolumeDown(d)
  \/ \E d \in Devices : VolumeUp(d)
  \/ \E d \in Devices : Mute(d)

\* =================================================================
\* the iterator file: TreeNode, DepthFirstIterator
\* =================================================================
\* the TreeNode objects, named in the order of their construction; node 1
\* is the root the iterator is constructed with
TreeNodes == 1 .. MaxNodes

\* null
NoNode == 0

\* the nodes that are in the tree of the root
RECURSIVE InTree(_, _)
InTree(kids, node) ==
  {node} \cup UNION {InTree(kids, kids[node][i]) : i \in 1 .. Len(kids[node])}

Reverse(s) == [i \in 1 .. Len(s) |-> s[Len(s) + 1 - i]]

\* mutant of PushChildren: the children are pushed first to last
PushChildrenForward(s, kids) == s \o kids

\* the for loop of next(): the children are pushed last to first
PushChildren(s, kids) == s \o Reverse(kids)

NoIterCall == [op |-> "none", outcome |-> "returned", result |-> NoNode]

\* TreeNode.add(child), the child a node newly constructed: the client
\* builds the tree before it constructs the iterator
TreeAdd(p, c) ==
  /\ ~iterMade
  /\ p \in InTree(treeChildren, 1)
  /\ c \in TreeNodes
  /\ c = Cardinality(InTree(treeChildren, 1)) + 1
  /\ treeChildren' = [treeChildren EXCEPT ![p] = Append(@, c)]
  /\ UNCHANGED <<iterMade, stack, currentNode, visited, iterCall, invokerVars, stateVars, subjectVars, mediatorVars, serialVars, chainVars, singletonVars, proxyVars, compositeVars, bridgeVars>>

\* new DepthFirstIterator(root)
NewIterator ==
  /\ ~iterMade
  /\ iterMade' = TRUE
  /\ stack' = <<1>>
  /\ currentNode' = NoNode
  /\ visited' = <<>>
  /\ iterCall' = [NoIterCall EXCEPT !.op = "new"]
  /\ UNCHANGED <<treeChildren, invokerVars, stateVars, subjectVars, mediatorVars, serialVars, chainVars, singletonVars, proxyVars, compositeVars, bridgeVars>>

\* DepthFirstIterator.hasNext
HasNext ==
  /\ iterMade
  /\ iterCall' = [op |-> "hasNext", outcome |-> "returned",
                  result |-> IF Len(stack) > 0 THEN 1 ELSE 0]
  /\ UNCHANGED <<treeChildren, iterMade, stack, currentNode, visited, invokerVars, stateVars, subjectVars, mediatorVars, serialVars, chainVars, singletonVars, proxyVars, compositeVars, bridgeVars>>

\* DepthFirstIterator.next
IterNext ==
  /\ iterMade
  /\ IF Len(stack) > 0
       THEN LET node == Last(stack)
            IN /\ stack' = PushChildren(Front(stack), treeChildren[node])
               /\ currentNode' = node
               /\ visited' = Append(visited, node)
               /\ iterCall' = [op |-> "next", outcome |-> "returned",
                               result |-> node]
       ELSE /\ iterCall' = [op |-> "next", outcome |-> "threw",
                            result |-> NoNode]
            /\ UNCHANGED <<stack, currentNode, visited>>
  /\ UNCHANGED <<treeChildren, iterMade, invokerVars, stateVars, subjectVars, mediatorVars, serialVars, chainVars, singletonVars, proxyVars, compositeVars, bridgeVars>>

\* DepthFirstIterator.current
Current ==
  /\ iterMade
  /\ iterCall' = [op |-> "current",
                  outcome |-> IF currentNode = NoNode THEN "threw"
                              ELSE "returned",
                  result |-> currentNode]
  /\ UNCHANGED <<treeChildren, iterMade, stack, currentNode, visited, invokerVars, stateVars, subjectVars, mediatorVars, serialVars, chainVars, singletonVars, proxyVars, compositeVars, bridgeVars>>

\* DepthFirstIterator.rewind
Rewind ==
  /\ iterMade
  /\ stack' = <<1>>
  /\ currentNode' = NoNode
  /\ visited' = <<>>
  /\ iterCall' = [NoIterCall EXCEPT !.op = "rewind"]
  /\ UNCHANGED <<treeChildren, iterMade, invokerVars, stateVars, subjectVars, mediatorVars, serialVars, chainVars, singletonVars, proxyVars, compositeVars, bridgeVars>>

InitIterator ==
  /\ treeChildren = [n \in TreeNodes |-> <<>>]
  /\ iterMade = FALSE
  /\ stack = <<>>
  /\ currentNode = NoNode
  /\ visited = <<>>
  /\ iterCall = NoIterCall

NextIterator ==
  \/ \E p \in TreeNodes, c \in TreeNodes : TreeAdd(p, c)
  \/ NewIterator
  \/ HasNext
  \/ IterNext
  \/ Current
  \/ Rewind

\* =================================================================
\* specifications
\* =================================================================
Init ==
  /\ InitInvoker
  /\ InitState
  /\ InitSubject
  /\ InitMediator
  /\ InitSerial
  /\ InitChain
  /\ InitSingleton
  /\ InitProxy
  /\ InitComposite
  /\ InitBridge
  /\ InitIterator

SpecInvoker == Init /\ [][NextInvoker]_vars

SpecState == Init /\ [][NextState]_vars

SpecSubject == Init /\ [][NextSubject]_vars

SpecReentrant == Init /\ [][NextReentrant]_vars

SpecMediator == Init /\ [][NextMediator]_vars

SpecRouting == Init /\ [][NextRouting]_vars

SpecSerial == Init /\ [][NextSerial]_vars

SpecChain == Init /\ [][NextChain]_vars

SpecSingleton == Init /\ [][NextSingleton]_vars

SpecProxy == Init /\ [][NextProxy]_vars

SpecComposite == Init /\ [][NextComposite]_vars

SpecBridge == Init /\ [][NextBridge]_vars

SpecIterator == Init /\ [][NextIterator]_vars

\* =================================================================
\* properties of the Invoker (SpecInvoker)
\* =================================================================
IsPrefix(p, s) == Len(p) <= Len(s) /\ SubSeq(s, 1, Len(p)) = p

\* C1: undo is strict LIFO.  Every undo() call on a non-empty history
\* removes exactly the command applied most recently among those not yet
\* undone (the last of live), runs the inverse calls of that command and
\* of no other, and leaves the older commands in place and in order; the
\* history is always the applied, not yet undone commands in the order of
\* their application.
C1_UndoIsLifo ==
  /\ [](history = live)
  /\ [][(invCall'.op = "undo" /\ history # <<>>) =>
          /\ invCall'.target = Last(live)
          /\ IsPrefix(invCall'.effects, UndoCalls(Last(live)))
          /\ history' = Front(history)
          /\ live' = Front(live)]_vars

C1_Witness ==
  /\ invCall.op = "undo"
  /\ invCall.outcome = "returned"
  /\ Len(invCall.pre) >= 2
  /\ invCall.target # invCall.pre[1]
  /\ invCall.effects = UndoCalls(invCall.target)

C5_FailedForwardNotRecorded ==
  (invCall.op = "doSomethingImportant" /\ invCall.threwIn # "none") =>
     /\ invCall.outcome = "threw"
     /\ history =
          IF invCall.threwIn = "onStart" \/ onStart = NoCommand
            THEN invCall.pre
            ELSE Append(invCall.pre, onStart)
     /\ live = history

C5_Witness ==
  /\ invCall.op = "doSomethingImportant"
  /\ invCall.threwIn = "onFinish"
  /\ onStart # NoCommand
  /\ invCall.pre # <<>>
  /\ Len(history) = Len(invCall.pre) + 1

\* C6 (as claimed): when the inverse action of the popped command fails,
\* the command is pushed back: the history after the failed undo() is the
\* history before it.
C6_FailedUndoKeepsCommand ==
  (invCall.op = "undo" /\ invCall.threwIn = "undo") => history = invCall.pre

C8_CommandsAtomic ==
  (invCall.op = "doSomethingImportant") =>
     LET pushed == SubSeq(history, Len(invCall.pre) + 1, Len(history))
     IN invCall.effects =
          IF pushed = <<>> THEN <<>>
          ELSE IF Len(pushed) = 1 THEN ExecuteCalls(pushed[1])
          ELSE ExecuteCalls(pushed[1]) \o ExecuteCalls(pushed[2])

\* =================================================================
\* properties of the Document and the Context (SpecState)
\* =================================================================
\* the (state, request) pairs whose handler changes the state
RuleTable ==
  { <<"DraftState", "publish">>, <<"ModerationState", "review">>,
    <<"ModerationState", "reject">>, <<"PublishedState", "reject">> }

C4_FailedTransitionRolledBack ==
  /\ (docCall.outcome = "threw") => docState = docCall.from
  /\ (ctxCall.outcome = "threw") => ctxState = ctxCall.from

\* -----------------------------------------------------------------
\* C26 (as stated): after any sequence of publish, review and reject calls
\* the state is Draft, Moderation or Published; it becomes Published only
\* by review in Moderation, Moderation only by publish in Draft, and every
\* other (state, request) pair leaves the state unchanged.  (docCall.from
\* is the state the request found, whichever calls led to it.)
C26_OnlyForwardRules ==
  /\ docState \in DocStates
  /\ (docCall.op \in DocRequests) =>
       docState =
         (IF docCall.from = "DraftState" /\ docCall.op = "publish"
            THEN "ModerationState"
          ELSE IF docCall.from = "ModerationState" /\ docCall.op = "review"
            THEN "PublishedState"
          ELSE docCall.from)

\* C26 (amended): after any sequence of publish, review and reject calls
\* the state is Draft, Moderation or Published; it becomes Published only
\* by review in Moderation, Moderation only by publish in Draft, Draft only
\* by reject in Moderation or in Published, and every other (state,
\* request) pair leaves the state unchanged.
C26_DocumentRules ==
  /\ docState \in DocStates
  /\ (docCall.op \in DocRequests) =>
       docState =
         (IF docCall.from = "DraftState" /\ docCall.op = "publish"
            THEN "ModerationState"
          ELSE IF docCall.from = "ModerationState" /\ docCall.op = "review"
            THEN "PublishedState"
          ELSE IF docCall.from \in {"ModerationState", "PublishedState"}
                  /\ docCall.op = "reject"
            THEN "DraftState"
          ELSE docCall.from)

\* a published Document was rejected and is a draft again
C26_Witness ==
  /\ docCall.op = "reject"
  /\ docCall.from = "PublishedState"
  /\ docState = "DraftState"

\* =================================================================
\* properties of the ConcreteSubject (SpecSubject)
\* =================================================================
Count(s, x) == Cardinality({i \in 1 .. Len(s) : s[i] = x})

Registered(s) == {s[i] : i \in 1 .. Len(s)}

IsNotification == subjCall.op \in {"notify", "someBusinessLogic"}

\* C9 (as claimed): when a listener fails during a notification in which
\* no handler changes the registrations, every listener registered is
\* still invoked exactly once and the notification returns normally.
C9_ListenerFailureIsolated ==
  (IsNotification /\ subjCall.thrower # "" /\ ~subjCall.touched) =>
     /\ \A o \in Registered(subjCall.pre) : Count(subjCall.delivered, o) = 1
     /\ subjCall.outcome = "returned"

\* C10 (as claimed): a notification that returns has invoked exactly the
\* listeners registered when it started, each once, whatever the handlers
\* attached or detached meanwhile.
C10_DeliversToSnapshot ==
  (IsNotification /\ subjCall.outcome = "returned") =>
     \A o \in Observers :
        Count(subjCall.delivered, o) =
          IF o \in Registered(subjCall.pre) THEN 1 ELSE 0

\* C11: the state change is committed before the notification goes out.
\* The state every observer reads from the subject during the
\* notification someBusinessLogic sends is the state it has just
\* committed, and that state is still the subject's state when the call
\* ends, whether the notification returned or threw.  (The notification
\* triggers nothing else: the subject calls only its observers.)
C11_StateCommittedBeforeNotify ==
  (subjCall.op = "someBusinessLogic") =>
     /\ subjCall.seen = subjState
     /\ subjState \in RandomStates

C11_Witness ==
  /\ subjCall.op = "someBusinessLogic"
  /\ Len(subjCall.delivered) >= 2
  /\ subjCall.outcome = "returned"
  /\ subjCall.seen = subjState

\* C12 (as claimed): a notification is delivered to all the listeners
\* registered when it is sent, each exactly once, in the order in which
\* they subscribed.
C12_DeliversInSubscriptionOrder ==
  IsNotification => subjCall.delivered = subjCall.pre

IsFaultless == subjCall.outcome = "returned" /\ ~subjCall.touched

\* C13: subscribing an observer that is already registered is a no-op.
\* No observer is ever in the list twice; an attach leaves the observers
\* already registered at their positions and adds the given one only when
\* it is new; and a notification whose handlers all return without
\* changing the registrations invokes each registered observer exactly
\* once.
C13_DuplicateAttachIsNoOp ==
  /\ [](\A o \in Observers : Count(observers, o) <= 1)
  /\ [](IsNotification /\ IsFaultless =>
          \A o \in Observers :
             Count(subjCall.delivered, o) =
               IF o \in Registered(subjCall.pre) THEN 1 ELSE 0)
  /\ [][(subjCall'.op = "attach") =>
          /\ IsPrefix(observers, observers')
          /\ (subjCall'.thrower \in Registered(observers)
                => observers' = observers)]_vars

C13_Witness ==
  /\ subjCall.op = "attach"
  /\ Len(subjCall.pre) >= 2
  /\ subjCall.thrower = subjCall.pre[1]
  /\ observers = subjCall.pre

Without(s, x) == LET Keep(y) == y # x IN SelectSeq(s, Keep)

\* C14: unsubscribe is idempotent.  A detach returns normally and leaves
\* the list without the given observer and with every other observer in
\* place; when the observer was not registered the list is unchanged, and
\* detaching it once more changes nothing.
C14_DetachIdempotent ==
  (subjCall.op = "detach") =>
     /\ subjCall.outcome = "returned"
     /\ observers = Without(subjCall.pre, subjCall.thrower)
     /\ (subjCall.thrower \notin Registered(subjCall.pre)
           => observers = subjCall.pre)
     /\ DetachFrom(observers, subjCall.thrower) = observers

C14_Witness ==
  /\ subjCall.op = "detach"
  /\ subjCall.thrower \notin Registered(subjCall.pre)
  /\ Len(subjCall.pre) >= 2
  /\ observers = subjCall.pre

\* C15 (as claimed, under SpecReentrant): every listener receives the
\* notifications in the order in which they were sent.
C15_DeliveredInPublishOrder ==
  IsNotification =>
     \A i, j \in 1 .. Len(subjCall.delivered) :
        (i < j /\ subjCall.delivered[i] = subjCall.delivered[j])
           => subjCall.events[i] <= subjCall.events[j]


\* -----------------------------------------------------------------
\* C16 (as stated): registering a user under a name that is already
\* registered replaces the earlier registration: after register(u) the
\* room holds exactly one entry for u's name and that entry is u, the
\* most recently registered object.
C16_RegisterReplaces ==
  (chatCall.op = "register") =>
    /\ Count([i \in 1 .. Len(chatUsers) |-> chatUsers[i].name],
             chatCall.user.name) = 1
    /\ \A i \in 1 .. Len(chatUsers) :
         chatUsers[i].name = chatCall.user.name => chatUsers[i] = chatCall.user

\* C16 (amended): registering a user under a name that is already
\* registered changes nothing: the room keeps exactly the entry registered
\* first under that name, a new name is appended, and messages are
\* delivered only to the entries the room holds, never to the object whose
\* registration was ignored (which, having no chat room, cannot send).
C16_RegisterKeepsFirst ==
  /\ \A i, j \in 1 .. Len(chatUsers) :
       chatUsers[i].name = chatUsers[j].name => i = j
  /\ (chatCall.op = "register") =>
       chatUsers = (IF HasName(chatCall.pre, chatCall.user.name)
                      THEN chatCall.pre
                      ELSE Append(chatCall.pre, chatCall.user))
  /\ (chatCall.op \in {"send", "userSend"}) =>
       /\ Registered(chatCall.received) \subseteq Registered(chatUsers)
       /\ (chatCall.op = "userSend"
            /\ chatCall.user \notin Registered(chatUsers)) =>
             (chatCall.outcome = "threw" /\ chatCall.received = <<>>)

\* a second object was registered under a name already in the room, and
\* the room still holds the first one
C16_Witness ==
  /\ chatCall.op = "register"
  /\ HasName(chatCall.pre, chatCall.user.name)
  /\ chatCall.user \notin Registered(chatCall.pre)
  /\ chatCall.user \notin Registered(chatUsers)

\* -----------------------------------------------------------------
\* the (sender, event) pairs of the components: Component1.doA sends 'A',
\* Component2.doD sends 'D'
BoundReactions(sender, event) ==
  IF sender = "component1" /\ event = "A" THEN <<"Component2.doC">>
  ELSE IF sender = "component2" /\ event = "D"
    THEN <<"Component1.doB", "Component2.doC">>
  ELSE <<>>

\* C17: notify(sender, event) invokes exactly the reactions bound to that
\* (sender, event) pair, each once and in order; the reactions bound to
\* another sender or another event are not invoked.
C17_NotifyRunsBoundReactions ==
  (medCall.op # "none") =>
    medCall.reactions = BoundReactions(medCall.sender, medCall.event)


\* -----------------------------------------------------------------
\* C18: nested notify calls are bounded: a chain of notify calls nested
\* deeper than the recursion depth (8 by default) fails with
\* RoutingCycleDetected.
C18_NestedNotifyBounded ==
  medCall.depth <= 8 \/ medCall.outcome = "RoutingCycleDetected"

C20_SubmitMovesAndEmits ==
  (docCall.op = "publish" /\ docCall.from = "DraftState") =>
    /\ docState = "ModerationState"
    /\ IsNotification


\* -----------------------------------------------------------------
\* C24: ChatRoom.send distributes a message to all registered users but
\* the sender: every registered user whose name differs from the sender's
\* receives it exactly once, the receivers are reached in the order of
\* their registration, and the sender never receives its own message.
C24_SendReachesAllButSender ==
  (chatCall.op \in {"send", "userSend"} /\ chatCall.outcome = "returned") =>
    LET got == chatCall.received
    IN /\ \A u \in Registered(chatCall.pre) :
            Count(got, u) = (IF u.name # chatCall.user.name THEN 1 ELSE 0)
       /\ Registered(got) \subseteq Registered(chatCall.pre)
       /\ \A i, j \in 1 .. Len(got) :
            i < j => IndexOf(chatCall.pre, got[i]) < IndexOf(chatCall.pre, got[j])

\* a registered user sent a message in a room of three users and the two
\* others received it
C24_Witness ==
  /\ chatCall.op = "userSend"
  /\ Len(chatCall.pre) = 3
  /\ chatCall.user \in Registered(chatCall.pre)
  /\ Len(chatCall.received) = 2

\* -----------------------------------------------------------------
\* C28: every notification of the basic mediator ends without re-entry:
\* Component1.doA causes exactly one doC, Component2.doD exactly one doB
\* followed by one doC, and notify is never entered from inside notify (the
\* nesting depth is at most 1).
C28_NotifyNotReentered ==
  /\ (medCall.op = "doA") => medCall.reactions = <<"Component2.doC">>
  /\ (medCall.op = "doD") =>
       medCall.reactions = <<"Component1.doB", "Component2.doC">>
  /\ medCall.depth <= 1
  /\ medCall.outcome = "returned"

\* Component2.doD has run
C28_Witness ==
  /\ medCall.op = "doD"
  /\ Len(medCall.reactions) = 2
  /\ medCall.depth = 1

DemoChain ==
  [h \in Loggers |->
     IF h = "ConsoleInfoLogger" THEN "FileDebugLogger"
     ELSE IF h = "FileDebugLogger" THEN "EmailErrorLogger" ELSE "undefined"]

\* C22: in the chain InfoLogger > DebugLogger > ErrorLogger entered at the
\* InfoLogger a request of level 1 is handled by the first logger, of level
\* 2 by the second (FileDebugLogger), of level 3 by the third
\* (EmailErrorLogger), and a request of level 0 by none: the result is
\* null.
C22_LevelSelectsLogger ==
  (logCall.op = "handle" /\ nextHandler = DemoChain
     /\ logCall.entry = "ConsoleInfoLogger") =>
    /\ logCall.levelStr = "1" => logCall.handler = "ConsoleInfoLogger"
    /\ logCall.levelStr = "2" => logCall.handler = "FileDebugLogger"
    /\ logCall.levelStr = "3" => logCall.handler = "EmailErrorLogger"
    /\ logCall.levelStr = "0" => logCall.handler = "null"


\* =================================================================
\* properties of DatabaseConnection (SpecSingleton)
\* =================================================================
\* C23: getInstance returns the same instance on every call: whatever the
\* host and port arguments, the constructor runs exactly once, on the first
\* call, and every call returns the instance constructed then.
C23_OneInstance ==
  /\ constructed = (IF getCalls = 0 THEN 0 ELSE 1)
  /\ (getCalls > 0) => instance.id = 1
  /\ (connCall.op = "getInstance") =>
       (connCall.returned = instance /\ connCall.returned.id = 1)

\* a later call with other arguments than the first returned the first
\* instance
C23_Witness ==
  /\ getCalls >= 2
  /\ connCall.op = "getInstance"
  /\ connCall.host # connCall.returned.host
  /\ connCall.port # connCall.returned.port


\* =================================================================
\* properties of ExpensiveOperationProxy (SpecProxy)
\* =================================================================
\* C25: a cache proxy delegates to the real subject only when it has no
\* cached result: over any sequence of request() calls of one proxy the
\* real subject's request runs exactly once, on the first call, and every
\* later call is answered from the cache.
C25_DelegatesOnce ==
  /\ \A p \in CacheProxies :
       /\ handled[p] = (IF requests[p] = 0 THEN 0 ELSE 1)
       /\ (cachedResult[p] = "null") <=> (requests[p] = 0)
  /\ (proxyCall.subject \in CacheProxies) =>
       (proxyCall.delegated <=> proxyCall.ordinal = 1)

\* a cache proxy answered its third call from the cache
C25_Witness ==
  /\ proxyCall.subject \in CacheProxies
  /\ proxyCall.ordinal = 3
  /\ ~proxyCall.delegated
  /\ handled[proxyCall.subject] = 1


\* =================================================================
\* properties of the Composite (SpecComposite)
\* =================================================================
\* C27: remove(component) removes only the given component: when it is not
\* among the children the list is unchanged; when it is, exactly that one
\* child is removed and the order of the others is kept.
C27_RemoveOnlyGiven ==
  (compCall.op = "remove") =>
    LET pre == compCall.pre
        at == IndexOf(pre, compCall.component)
    IN children =
         (IF at = 0 THEN pre
          ELSE SubSeq(pre, 1, at - 1) \o SubSeq(pre, at + 1, Len(pre)))


\* =================================================================
\* properties of the devices and their remote controls (SpecBridge)
\* =================================================================
\* C29: the volume of a device stays within 0..100: after any sequence of
\* volumeUp, volumeDown, mute and setVolume calls getVolume() is a number
\* between 0 and 100 inclusive.
C29_VolumeInRange ==
  \A d \in Devices :
    ~volume[d].nan /\ volume[d].n >= 0 /\ volume[d].n <= 100


\* =================================================================
\* properties of the DepthFirstIterator (SpecIterator)
\* =================================================================
\* the nodes of the tree below and including node in pre-order: a parent
\* before its children, the children first to last
RECURSIVE PreOrder(_, _)
RECURSIVE PreOrderAll(_, _)
PreOrder(kids, node) == <<node>> \o PreOrderAll(kids, kids[node])

PreOrderAll(kids, nodes) ==
  IF nodes = <<>> THEN <<>>
  ELSE PreOrder(kids, Head(nodes)) \o PreOrderAll(kids, Tail(nodes))

\* C30: a fresh or rewound DepthFirstIterator driven with
\* 'while hasNext() do next()' returns every node of the tree exactly once
\* in pre-order and then stops: what next() has returned so far is the
\* beginning of the pre-order, hasNext() is false exactly when all of it
\* was returned, and next() called then raises an error and leaves the
\* stack empty.
C30_VisitsInPreOrder ==
  iterMade =>
    LET order == PreOrder(treeChildren, 1)
    IN /\ IsPrefix(visited, order)
       /\ (stack = <<>>) <=> (visited = order)
       /\ \A n \in InTree(treeChildren, 1) : Count(order, n) = 1
       /\ (iterCall.op = "next" /\ iterCall.outcome = "threw") =>
            (stack = <<>> /\ visited = order)

\* a tree of a root with two children, the first of them with a child of
\* its own, was walked to its end and next() was called once more
C30_Witness ==
  /\ iterMade
  /\ treeChildren[1] = <<2, 3>>
  /\ treeChildren[2] = <<4>>
  /\ visited = <<1, 2, 4, 3>>
  /\ iterCall.op = "next"
  /\ iterCall.outcome = "threw"
  /\ stack = <<>>

====
